---- MODULE Spec2Model ----
(***************************************************************************)
(* wgbs_tools `view`: the read-level filter of one region                  *)
(* (ViewPat.perform_view and its stages), the padding stripper applied     *)
(* repeatedly, and the multi-region driver (view_pat_bed_multiprocess      *)
(* with its worker task view_pat_mult_proc).                               *)
(*                                                                         *)
(* A read is a record [start, pat, count]; pat is a sequence over the      *)
(* one-character strings ".", "C", "T".  A DataFrame is the sequence of    *)
(* its rows.  Sub-sample rates are per cent (0, 50, 100) or None.          *)
(***************************************************************************)
EXTENDS Integers, Sequences, FiniteSets, TLC

\* ------------------------------------------------------------- bounds
MaxSite == 3        \* reads start at sites 1..MaxSite
MaxPatLen == 3      \* patterns have 1..MaxPatLen characters
MaxCount == 1       \* counts are 1..MaxCount
MaxReads == 2       \* rows in the pat file
MaxMinLen == 2      \* --min_len is 1..MaxMinLen
MaxFew == 4         \* bed files of 0..MaxFew regions, and of
MaxOver == 2        \* bigstep - 1 .. bigstep + MaxOver regions
MaxThreads == 3     \* --threads is 1..MaxThreads
KindPeriod == 2     \* the regions' outcomes repeat with this period

\* ---------------------------------------------------- program constants
MAX_PAT_LEN == 150
bigstep == 100

\* None: an absent interval or rate; a rate p is the one-element sequence <<p>>.
None == <<>>

VARIABLES
    file,        \* the rows of the pat file, sorted by start
    gr,          \* the region: [chrom, sites], sites = <<start, end>>
    strict,      \* --strict
    strip,       \* --strip
    min_len,     \* --min_len
    sub_sample,  \* --sub_sample: None, or a rate in per cent
    df,          \* the DataFrame: perform_view's result
    pc,          \* where the run is
    nregions,    \* len(full_regions_lst); region k is the k-th row of the bed file
    threads,     \* --threads
    print_region,\* --print_region
    out_file,    \* out_path is a regular file (else the sink is a stream)
    kinds,       \* what the query of a region gives, by position modulo KindPeriod
    ch,          \* the offset of the super-chunk
    processes,   \* the first index of each task's slice, in dispatch order
    results,     \* each task's AsyncResult
    arrived,     \* the tasks in the order they finished
    sink,        \* the content of the output
    dpc          \* where the driver is

viewVars == <<file, gr, strict, strip, min_len, sub_sample, df, pc>>
driverVars == <<nregions, threads, print_region, out_file, kinds, ch, processes,
                results, arrived, sink, dpc>>
vars == <<viewVars, driverVars>>

\* ------------------------------------------------------------ strings
Alphabet == {".", "C", "T"}

Min(a, b) == IF a < b THEN a ELSE b
Max(a, b) == IF a > b THEN a ELSE b

\* The code point of a character: Python compares strings by code point.
Ord(c) == CASE c = "." -> 46 [] c = "C" -> 67 [] c = "T" -> 84

\* a < b for Python strings: lexicographic, a proper prefix is smaller.
RECURSIVE StrLess(_, _)
StrLess(a, b) ==
    IF b = <<>> THEN FALSE
    ELSE IF a = <<>> THEN TRUE
    ELSE IF Ord(Head(a)) # Ord(Head(b)) THEN Ord(Head(a)) < Ord(Head(b))
    ELSE StrLess(Tail(a), Tail(b))

\* pat.rstrip('.')
RECURSIVE rstrip(_)
rstrip(pat) ==
    IF pat # <<>> /\ pat[Len(pat)] = "." THEN rstrip(SubSeq(pat, 1, Len(pat) - 1))
    ELSE pat

\* A strip of one leading dot only.
lstrip_once(pat) == IF pat # <<>> /\ Head(pat) = "." THEN Tail(pat) ELSE pat

\* pat.lstrip('.')
RECURSIVE lstrip(_)
lstrip(pat) ==
    IF pat # <<>> /\ Head(pat) = "." THEN lstrip(Tail(pat))
    ELSE pat

\* pat[i:] of Python: a negative i counts from the end, both are clamped.
SliceFrom(pat, i) ==
    LET k == IF i >= 0 THEN Min(i, Len(pat)) ELSE Max(0, Len(pat) + i)
    IN  SubSeq(pat, k + 1, Len(pat))

\* pat[:j] of Python: a negative j counts from the end, both are clamped.
SliceTo(pat, j) ==
    LET k == IF j >= 0 THEN Min(j, Len(pat)) ELSE Max(0, Len(pat) + j)
    IN  SubSeq(pat, 1, k)

\* --------------------------------------------------------- DataFrames
\* Row order of sort_values(by=['start', 'pat']).
RowLess(a, b) ==
    \/ a.start < b.start
    \/ a.start = b.start /\ StrLess(a.pat, b.pat)

\* Insert row r after every row that is not greater: a stable insertion.
RECURSIVE InsertSorted(_, _)
InsertSorted(r, rows) ==
    IF rows = <<>> THEN <<r>>
    ELSE IF RowLess(r, Head(rows)) THEN <<r>> \o rows
    ELSE <<Head(rows)>> \o InsertSorted(r, Tail(rows))

\* df.sort_values(by=['start', 'pat']): a stable sort on the two keys.
RECURSIVE sort_values(_)
sort_values(rows) ==
    IF rows = <<>> THEN <<>>
    ELSE InsertSorted(rows[Len(rows)], sort_values(SubSeq(rows, 1, Len(rows) - 1)))

\* ------------------------------------------------------------ regions
\* A GenomicRegion with a chromosome and a site interval [start, end).
Region(s, e) == [chrom |-> "chr1", sites |-> <<s, e>>]

\* build_cmd with the interval's end taken as inclusive.
build_cmd_inclusive(g) ==
    IF g.chrom = "" THEN [whole |-> TRUE, first |-> 0, last |-> 0]
    ELSE [whole |-> FALSE, first |-> Max(1, g.sites[1] - MAX_PAT_LEN), last |-> g.sites[2]]

\* ViewPat.build_cmd: the range handed to tabix, or the whole file.
build_cmd(g) ==
    IF g.chrom = "" THEN [whole |-> TRUE, first |-> 0, last |-> 0]
    ELSE LET start == g.sites[1]
             end == g.sites[2]
         IN  [whole |-> FALSE, first |-> Max(1, start - MAX_PAT_LEN), last |-> end - 1]

\* read_shell(cmd): tabix returns the rows whose start lies in first..last,
\* gunzip returns every row.
read_shell(cmd, rows) ==
    IF cmd.whole THEN rows
    ELSE SelectSeq(rows, LAMBDA r: cmd.first <= r.start /\ r.start <= cmd.last)

\* ------------------------------------------------------------- stages
\* The loop's pass with the right cut measured from the row's old start.
StrictRowStale(row, start, end) ==
    LET r1 == IF row.start < start
              THEN [row EXCEPT !.pat = SliceFrom(row.pat, start - row.start),
                               !.start = start]
              ELSE row
    IN  IF r1.start + Len(r1.pat) > end
        THEN [r1 EXCEPT !.pat = SliceTo(r1.pat, end - row.start)]
        ELSE r1

\* One pass of the loop of ViewPat.strict_reads over a row.
StrictRow(row, start, end) ==
    LET r1 == IF row.start < start
              THEN [row EXCEPT !.pat = SliceFrom(row.pat, start - row.start),
                               !.start = start]
              ELSE row
    IN  IF r1.start + Len(r1.pat) > end
        THEN [r1 EXCEPT !.pat = SliceTo(r1.pat, end - r1.start)]
        ELSE r1

\* ViewPat.strict_reads
strict_reads(rows, g) ==
    [i \in 1..Len(rows) |-> StrictRow(rows[i], g.sites[1], g.sites[2])]

\* The outcomes numpy's binomial(n, p) can have, p in per cent.
Binomial(n, p) == IF p = 0 THEN {0} ELSE IF p = 100 THEN {n} ELSE 0..n

\* ViewPat.sample_reads, draw[i] the binomial draw of row i.
sample_reads(rows, draw) ==
    LET drawn == [i \in 1..Len(rows) |-> [rows[i] EXCEPT !.count = draw[i]]]
    IN  SelectSeq(drawn, LAMBDA r: r.count # 0)

\* foo of ViewPat.strip_reads: strip the leading dots, advance the start.
foo(row) ==
    LET newpat == lstrip(row.pat)
    IN  [row EXCEPT !.start = row.start + Len(row.pat) - Len(newpat),
                    !.pat = newpat]

\* ViewPat.strip_reads
strip_reads(rows) ==
    LET right == [i \in 1..Len(rows) |-> [rows[i] EXCEPT !.pat = rstrip(rows[i].pat)]]
        kept == SelectSeq(right, LAMBDA r: Len(r.pat) # 0)
        left == [i \in 1..Len(kept) |->
                    IF Head(kept[i].pat) = "." THEN foo(kept[i]) ELSE kept[i]]
    IN  sort_values(left)

\* `if self.sub_sample:` of perform_view: None and 0.0 are both false.
SubSampleSet(p) == p # None /\ p[1] # 0

\* The pre-filter with >= for >: it keeps a row that ends where the interval starts.
OverlapFilterTouching(rows, g) ==
    IF g.sites # None
    THEN SelectSeq(rows, LAMBDA r: r.start + Len(r.pat) >= g.sites[1])
    ELSE rows

\* perform_view's pre-filter: the rows that end after the interval's start.
OverlapFilter(rows, g) ==
    IF g.sites # None
    THEN SelectSeq(rows, LAMBDA r: r.start + Len(r.pat) > g.sites[1])
    ELSE rows

\* perform_view's --min_len filter.
MinLenFilter(rows, ml) ==
    IF ml > 1 THEN SelectSeq(rows, LAMBDA r: Len(r.pat) >= ml) ELSE rows

\* ViewPat.perform_view up to the sampling step.
BeforeSample(rows, g, st, sp, ml) ==
    LET loaded == read_shell(build_cmd(g), rows)
        over == OverlapFilter(loaded, g)
        trimmed == IF st THEN strict_reads(over, g) ELSE over
        stripped == IF sp THEN strip_reads(trimmed) ELSE trimmed
    IN  IF loaded = <<>> THEN loaded ELSE MinLenFilter(stripped, ml)

\* ViewPat.perform_view
perform_view(rows, g, st, sp, ml, ss, draw) ==
    LET d == BeforeSample(rows, g, st, sp, ml)
    IN  IF SubSampleSet(ss) THEN sample_reads(d, draw) ELSE d

\* ------------------------------------------------------------- inputs
\* The strings of exactly n characters.
RECURSIVE Strings(_)
Strings(n) ==
    IF n = 0 THEN {<<>>}
    ELSE {<<c>> \o w : c \in Alphabet, w \in Strings(n - 1)}

\* The patterns of 1..n characters.
Patterns(n) == UNION {Strings(k) : k \in 1..n}

\* The reads with a pattern of at most n characters.
Reads(n) == [start : 1..MaxSite, pat : Patterns(n), count : 1..MaxCount]

\* The sequences of exactly n of the reads rs.
RECURSIVE Files(_, _)
Files(n, rs) ==
    IF n = 0 THEN {<<>>}
    ELSE {Append(f, r) : f \in Files(n - 1, rs), r \in rs}

\* The frames of at most n rows.
Frames(n) == LET rs == Reads(MaxPatLen) IN UNION {Files(k, rs) : k \in 0..n}

SortedByStart(rows) == \A i \in 1..Len(rows) - 1 : rows[i].start <= rows[i + 1].start

\* The pat files of at most n rows: sorted by start.
PatFiles(n) == {f \in Frames(n) : SortedByStart(f)}

\* The regions with an interval [s, e) of sites, s <= n.
Regions(n) ==
    {Region(se[1], se[2]) : se \in {x \in (1..n) \X (2..n + 1) : x[1] < x[2]}}

Rates == {None, <<0>>, <<50>>, <<100>>}

\* The draws numpy may return for the rows of d at rate p.
Draws(d, p) ==
    {w \in [1..Len(d) -> 0..MaxCount] : \A i \in 1..Len(d) : w[i] \in Binomial(d[i].count, p)}

\* The driver is not part of the run.
DriverIdle ==
    /\ nregions = 0 /\ threads = 1 /\ print_region = FALSE /\ out_file = FALSE
    /\ kinds = <<>> /\ ch = 0 /\ processes = <<>> /\ results = <<>>
    /\ arrived = <<>> /\ sink = <<>> /\ dpc = "idle"

\* No region is being viewed.
ViewIdle ==
    /\ file = <<>> /\ gr = Region(1, 2) /\ strict = FALSE /\ strip = FALSE
    /\ min_len = 1 /\ sub_sample = None /\ df = <<>> /\ pc = "idle"

\* ------------------------------------------------------ one region
InitView ==
    /\ file \in PatFiles(MaxReads)
    /\ gr \in Regions(MaxSite)
    /\ strict \in BOOLEAN
    /\ strip \in BOOLEAN
    /\ min_len \in 1..MaxMinLen
    /\ sub_sample \in Rates
    /\ df = <<>>
    /\ pc = "start"
    /\ DriverIdle

PerformView ==
    /\ pc = "start"
    /\ \E draw \in Draws(BeforeSample(file, gr, strict, strip, min_len),
                         IF SubSampleSet(sub_sample) THEN sub_sample[1] ELSE 100) :
          df' = perform_view(file, gr, strict, strip, min_len, sub_sample, draw)
    /\ pc' = "done"
    /\ UNCHANGED <<file, gr, strict, strip, min_len, sub_sample>>
    /\ UNCHANGED driverVars

NextView == PerformView

SpecView == InitView /\ [][NextView]_vars

\* ------------------------------------------------- the stripper, twice
InitStrip ==
    /\ file \in Frames(MaxReads)
    /\ df = file
    /\ gr = Region(1, 2) /\ strict = FALSE /\ strip = TRUE
    /\ min_len = 1 /\ sub_sample = None
    /\ pc = "input"
    /\ DriverIdle

StripOnce ==
    /\ pc = "input"
    /\ df' = strip_reads(df)
    /\ pc' = "once"
    /\ UNCHANGED <<file, gr, strict, strip, min_len, sub_sample>>
    /\ UNCHANGED driverVars

StripTwice ==
    /\ pc = "once"
    /\ df' = strip_reads(df)
    /\ pc' = "twice"
    /\ UNCHANGED <<file, gr, strict, strip, min_len, sub_sample>>
    /\ UNCHANGED driverVars

NextStrip == StripOnce \/ StripTwice

SpecStrip == InitStrip /\ [][NextStrip]_vars

\* ------------------------------------------------- the multi-region driver
Kinds == {"reads", "empty", "nocpg", "error"}

\* What the query of region k gives: reads, no line, no CpG site
\* (IllegalArgumentError), or any other error.
RegionKind(k) == kinds[((k - 1) % KindPeriod) + 1]

\* view_pat_mult_proc on regions grs[i], ..., grs[i + step - 1] (from 0).
view_pat_mult_proc(grs, i, step) ==
    LET last == Min(Len(grs), i + step)
    IN  IF \E j \in i + 1..last : RegionKind(grs[j]) = "error"
        THEN [state |-> "raised", reads |-> <<>>, cgrs |-> <<>>]
        ELSE [state |-> "returned",
              reads |-> [j \in 1..last - i |->
                            IF RegionKind(grs[i + j]) = "reads" THEN <<grs[i + j]>>
                            ELSE <<>>],
              cgrs |-> [j \in 1..last - i |->
                            [region |-> grs[i + j],
                             nocpg |-> RegionKind(grs[i + j]) = "nocpg"]]]

Pending == [state |-> "pending", reads |-> <<>>, cgrs |-> <<>>]

\* full_regions_lst[ch:ch + bigstep]
regions_lst == [j \in 1..Min(bigstep, nregions - ch) |-> ch + j]

\* The tasks taken as they finish.
WriteOrderArrival(procs, arr) == arr

\* The order in which the write loop takes the tasks: `for pr in processes`.
WriteOrder(procs, arr) == [t \in 1..Len(procs) |-> t]

\* What one task's result adds to the output.
RECURSIVE WriteResult(_, _, _)
WriteResult(reads, regions, j) ==
    IF j > Len(reads) THEN <<>>
    ELSE (IF print_region
          THEN <<[kind |-> "region", region |-> regions[j].region,
                  nocpg |-> regions[j].nocpg]>>
          ELSE <<>>)
         \o (IF reads[j] = <<>> THEN <<>>
             ELSE <<[kind |-> "reads", region |-> reads[j][1], nocpg |-> FALSE]>>)
         \o WriteResult(reads, regions, j + 1)

\* The write loop over the tasks of order: pr.get() raises what the task raised.
RECURSIVE WriteAll(_, _)
WriteAll(order, out) ==
    IF order = <<>> THEN [out |-> out, raised |-> FALSE]
    ELSE LET res == results[Head(order)]
         IN  IF res.state = "raised" THEN [out |-> out, raised |-> TRUE]
             ELSE WriteAll(Tail(order), out \o WriteResult(res.reads, res.cgrs, 1))

\* open(outpath, 'w'): a regular file is truncated.
Opened(content) == IF out_file THEN <<>> ELSE content

RegionCounts == (0..MaxFew) \cup (bigstep - 1..bigstep + MaxOver)

InitDriver ==
    /\ nregions \in RegionCounts
    /\ threads \in 1..MaxThreads
    /\ print_region \in BOOLEAN
    /\ out_file \in BOOLEAN
    /\ kinds \in [1..KindPeriod -> Kinds]
    /\ ch = 0
    /\ processes = <<>>
    /\ results = <<>>
    /\ arrived = <<>>
    /\ sink = <<>>
    /\ dpc = "chunk"
    /\ ViewIdle

\* The loop `for i in range(0, n, step)`: apply_async of every slice.
Dispatch ==
    /\ dpc = "chunk"
    /\ ch < nregions
    /\ LET n == Len(regions_lst)
           step == Max(1, n \div threads)
           ntasks == (n + step - 1) \div step
       IN  /\ processes' = [t \in 1..ntasks |-> (t - 1) * step]
           /\ results' = [t \in 1..ntasks |-> Pending]
    /\ arrived' = <<>>
    /\ dpc' = "join"
    /\ UNCHANGED <<nregions, threads, print_region, out_file, kinds, ch, sink>>
    /\ UNCHANGED viewVars

\* A worker of the pool runs one task to its end.
RunTask(t) ==
    /\ dpc = "join"
    /\ results[t].state = "pending"
    /\ LET n == Len(regions_lst)
           step == Max(1, n \div threads)
       IN  results' = [results EXCEPT ![t] = view_pat_mult_proc(regions_lst, processes[t], step)]
    /\ arrived' = Append(arrived, t)
    /\ UNCHANGED <<nregions, threads, print_region, out_file, kinds, ch, processes,
                   sink, dpc>>
    /\ UNCHANGED viewVars

\* p.join() has returned: the output is opened and the results are written.
WriteChunk ==
    /\ dpc = "join"
    /\ \A t \in 1..Len(processes) : results[t].state # "pending"
    /\ LET w == WriteAll(WriteOrder(processes, arrived), Opened(sink))
       IN  /\ sink' = w.out
           /\ dpc' = IF w.raised THEN "aborted" ELSE "chunk"
           /\ ch' = IF w.raised THEN ch ELSE ch + bigstep
    /\ UNCHANGED <<nregions, threads, print_region, out_file, kinds, processes,
                   results, arrived>>
    /\ UNCHANGED viewVars

\* The loop over the super-chunks ends.
Finish ==
    /\ dpc = "chunk"
    /\ ch >= nregions
    /\ dpc' = "done"
    /\ UNCHANGED <<nregions, threads, print_region, out_file, kinds, ch, processes,
                   results, arrived, sink>>
    /\ UNCHANGED viewVars

NextDriver ==
    \/ Dispatch
    \/ \E t \in 1..Len(processes) : RunTask(t)
    \/ WriteChunk
    \/ Finish

SpecDriver == InitDriver /\ [][NextDriver]_vars

\* ============================================================ claims
Start == gr.sites[1]
End == gr.sites[2]
Rows(d) == {d[i] : i \in 1..Len(d)}

\* The row covers at least one site of [Start, End).
Intersects(r) == r.start < End /\ r.start + Len(r.pat) > Start
\* The row covers no site outside [Start, End).
Inside(r) == r.start >= Start /\ r.start + Len(r.pat) <= End

\* C1: under --strict every read of the region's output starts at or after
\* the interval's start and ends at or before its end.
C1_StrictInside ==
    (pc = "done" /\ strict) => \A r \in Rows(df) : Inside(r)

\* A read that juts out on both sides was clipped on both sides and is in
\* the output of a run with --strict alone.
C1_Witness ==
    /\ pc = "done" /\ strict /\ ~strip /\ min_len = 1 /\ sub_sample = None
    /\ \E r \in Rows(file) :
          /\ r.start < Start /\ r.start + Len(r.pat) > End
          /\ [start |-> Start,
              pat |-> SubSeq(r.pat, Start - r.start + 1, End - r.start),
              count |-> r.count] \in Rows(df)

\* C9 as claimed: no read of the region's output lies entirely outside
\* the interval, whatever --strict and --strip.
C9_OutputIntersects ==
    pc = "done" => \A r \in Rows(df) : Intersects(r)

\* C9 as amended: every output read comes from within a read of the file
\* that intersects the interval, and itself intersects the interval when
\* --strip is off or --strict is on.
C9_OverlapFilter ==
    pc = "done" =>
        \A r \in Rows(df) :
            /\ \E o \in Rows(file) :
                  /\ Intersects(o)
                  /\ o.start <= r.start
                  /\ r.start + Len(r.pat) <= o.start + Len(o.pat)
            /\ (strict \/ ~strip) => Intersects(r)

\* The file holds reads on both sides of the interval and one across it,
\* and only the latter is in the output.
C9_Witness ==
    /\ pc = "done" /\ ~strict /\ ~strip /\ min_len = 1 /\ sub_sample = None
    /\ Len(file) = 2 /\ Len(df) = 1
    /\ \E r \in Rows(file) : ~Intersects(r)
    /\ Intersects(df[1])

\* C10: every read of the region's output has at least min_len sites.
C10_MinLen ==
    pc = "done" => \A r \in Rows(df) : Len(r.pat) >= min_len

\* Under --strict alone a read that reaches the interval by its last site
\* only, or juts out on both sides of a one-site interval, is in the output
\* with one site.
C10_Witness ==
    /\ pc = "done" /\ strict /\ ~strip /\ min_len = 1 /\ sub_sample = None
    /\ \E r \in Rows(file) :
          /\ Len(r.pat) >= 2
          /\ \/ r.start + Len(r.pat) = Start + 1
             \/ r.start < Start /\ r.start + Len(r.pat) > End /\ End = Start + 1
          /\ \E q \in Rows(df) : q.start = Start /\ Len(q.pat) = 1

\* The rows are sorted by (start, pat).
RowSorted(d) == \A i \in 1..Len(d) - 1 : ~RowLess(d[i + 1], d[i])
\* No two rows have the same (start, pat).
RowDistinct(d) ==
    \A i, j \in 1..Len(d) : (d[i].start = d[j].start /\ d[i].pat = d[j].pat) => i = j

\* C5 as claimed: the output of a region is sorted by (start, pat) under
\* every combination of the flags (here for a file sorted that way).
C5_OutputSorted ==
    (pc = "done" /\ RowSorted(file)) => RowSorted(df)

\* C6 as claimed: no two reads of a region's output share (start, pat)
\* (here for a file of which no two reads do).
C6_OutputCollapsed ==
    (pc = "done" /\ RowDistinct(file)) => RowDistinct(df)

\* C2 as claimed: at rate 1.0 the output is that of a run without sampling,
\* at rate 0.0 it is empty.
C2_SamplingEndPoints ==
    pc = "done" =>
        /\ sub_sample = <<100>> =>
              df = BeforeSample(file, gr, strict, strip, min_len)
        /\ sub_sample = <<0>> => df = <<>>

\* The number of '.' the pattern starts with, and ends with.
LeadingDots(pat) == Cardinality({i \in 1..Len(pat) : \A j \in 1..i : pat[j] = "."})
TrailingDots(pat) == Cardinality({i \in 1..Len(pat) : \A j \in i..Len(pat) : pat[j] = "."})
AllDots(pat) == \A i \in 1..Len(pat) : pat[i] = "."

\* The read without its leading and trailing dots, its start advanced by
\* the number of leading dots.
Stripped(r) ==
    [start |-> r.start + LeadingDots(r.pat),
     pat |-> SubSeq(r.pat, LeadingDots(r.pat) + 1, Len(r.pat) - TrailingDots(r.pat)),
     count |-> r.count]

\* How many rows of d are x.
Times(d, x) == Cardinality({i \in 1..Len(d) : d[i] = x})
\* How many rows of d, all-dots rows aside, are x once stripped.
TimesStripped(d, x) ==
    Cardinality({i \in 1..Len(d) : ~AllDots(d[i].pat) /\ Stripped(d[i]) = x})

\* C7: strip_reads leaves patterns that are not empty and neither start nor
\* end with '.'; its rows are the rows of its input that are not all dots,
\* each without its outer dots and with its start advanced by the number of
\* leading dots; and applied twice it gives what it gives applied once.
C7_StripIdempotent ==
    /\ pc \in {"once", "twice"} =>
          /\ \A r \in Rows(df) :
                r.pat # <<>> /\ Head(r.pat) # "." /\ r.pat[Len(r.pat)] # "."
          /\ \A x \in Rows(df) \cup {Stripped(r) : r \in Rows(file)} :
                Times(df, x) = TimesStripped(file, x)
    /\ pc = "twice" => df = strip_reads(file)

\* strip_reads ran twice on an all-dots read and a read with dots on both
\* sides of its one C or T.
C7_Witness ==
    /\ pc = "twice"
    /\ Len(file) = 2 /\ Len(df) = 1
    /\ \E r \in Rows(file) : AllDots(r.pat)
    /\ \E r \in Rows(file) :
          /\ Head(r.pat) = "." /\ r.pat[Len(r.pat)] = "." /\ ~AllDots(r.pat)
          /\ df[1].start = r.start + 1 /\ Len(df[1].pat) = 1

\* C3: what is written for the regions is in the order of the regions in the
\* bed file: each entry of the output is followed by an entry of a later
\* region, or by the reads of the region it is the label of.
C3_RegionOrder ==
    \A i \in 1..Len(sink) - 1 :
        \/ sink[i].region < sink[i + 1].region
        \/ /\ sink[i].region = sink[i + 1].region
           /\ sink[i].kind = "region" /\ sink[i + 1].kind = "reads"

\* The last task of a super-chunk finished first, and the driver wrote the
\* labels and the reads of every region of the bed file.
C3_Witness ==
    /\ dpc = "done" /\ print_region
    /\ Len(processes) >= 2 /\ arrived[1] = Len(processes)
    /\ nregions >= 2 /\ Len(sink) = 2 * nregions

\* The entries of the output of the given kind for region k.
Written(kind, k) == {i \in 1..Len(sink) : sink[i].kind = kind /\ sink[i].region = k}

\* C4 as claimed: when the driver ends, the output holds the reads of every
\* region that has reads exactly once, and with --print_region the label of
\* every region exactly once.
C4_OutputComplete ==
    dpc = "done" =>
        \A k \in 1..nregions :
            /\ RegionKind(k) = "reads" => Cardinality(Written("reads", k)) = 1
            /\ print_region => Cardinality(Written("region", k)) = 1

\* C8 as claimed: when the driver has stopped, its output (a stream) holds
\* the reads of every region whose query gave reads, whatever the queries of
\* the other regions did.
C8_FailureIsolated ==
    (dpc \in {"done", "aborted"} /\ ~out_file) =>
        \A k \in 1..nregions :
            RegionKind(k) = "reads" => Cardinality(Written("reads", k)) = 1

====
